---- MODULE Spec2Model ----
(***************************************************************************)
(* A model of the IPPO trainer baselines/IPPO/ippo_ff_overcooked_oracle_   *)
(* params.py: the run of main (configuration, environment construction,   *)
(* make_train, train and its update step), the advantage computation      *)
(* _calculate_gae, the epoch function _update_epoch, the learning-rate and *)
(* reward-shaping schedules, and of the particle environment               *)
(* smax/environments/mpe/simple_push.py (SimplePushMPE).                   *)
(*                                                                         *)
(* Arrays are represented by their shape and, where a claim reads them, by *)
(* their entries.  The environment (jaxmarl.make), the network             *)
(* (flax/distrax) and the random generator (jax.random) are libraries: the *)
(* model keeps what the script reads of them (sizes, agent names, which    *)
(* state an observation comes from) and makes their results deterministic  *)
(* functions of their arguments.                                           *)
(***************************************************************************)
EXTENDS Integers, Sequences, FiniteSets, TLC

(***************************************************************************)
(* Bounds of the model.                                                    *)
(***************************************************************************)
MaxEnvs == 2          \* NUM_ENVS ranges over 1..MaxEnvs
MaxSteps == 2         \* NUM_STEPS ranges over 1..MaxSteps
MaxMinibatches == 3   \* NUM_MINIBATCHES ranges over 1..MaxMinibatches
MaxEpochs == 1        \* UPDATE_EPOCHS ranges over 1..MaxEpochs
MaxTotal == 4         \* TOTAL_TIMESTEPS ranges over 0..MaxTotal
MaxObsDim == 2        \* the environment's flattened observation size, 0..MaxObsDim
MaxActionDim == 2     \* the environment's number of actions, 0..MaxActionDim
MaxSeed == 0          \* SEED ranges over 0..MaxSeed
MaxValue == 1         \* value estimates range over 0..MaxValue
MaxReward == 1        \* rewards range over 0..MaxReward

(***************************************************************************)
(* Program constants.                                                      *)
(***************************************************************************)
\* The script is written for the two agents agent_0 and agent_1.
NumAgents == 2
\* The number of names the result of the rollout scan is unpacked into:
\* runner_state, (traj_batch, info) = jax.lax.scan(_env_step, ...)
UnpackNames == 2

VARIABLES
    entry,        \* the function the run starts in: "main" or "make_train"
    pc,           \* the statement the run is at
    exc,          \* the exception that ended the run, "none" while it runs
    config,       \* the config dict: a function from its keys to their values
    world,        \* what jaxmarl.make builds for ENV_NAME / ENV_KWARGS
    stages,       \* the stages of the pipeline the run has entered, in order
    runner_state, \* (train_state, env_state, last_obs, update_step, rng)
    ys,           \* what the rollout scan has stacked, one entry per _env_step
    traj_batch,   \* the name traj_batch of _update_step, "unbound" until bound
    metrics,      \* the metric records handed to wandb.log
    gs,           \* state of a call of _calculate_gae
    es,           \* state of a call of _update_epoch
    ss,           \* state of the schedules over the updates of a training
    ms            \* state of a SimplePushMPE environment object

vars == <<entry, pc, exc, config, world, stages, runner_state, ys, traj_batch,
          metrics, gs, es, ss, ms>>

\* The variables of the specifications that follow a single function.
restVars == <<ss, ms>>

SchedIdle == [pc |-> "idle"]

MpeIdle == [pc |-> "idle"]

RestIdle ==
    /\ ss = SchedIdle
    /\ ms = MpeIdle

mainVars == <<entry, pc, exc, config, world, stages, runner_state, ys,
              traj_batch, metrics>>

(***************************************************************************)
(* Python dicts.                                                           *)
(***************************************************************************)
Put(d, k, v) == [x \in (DOMAIN d) \cup {k} |-> IF x = k THEN v ELSE d[x]]

Without(d, ks) == [x \in (DOMAIN d) \ ks |-> d[x]]

Prod(shape) ==
    LET RECURSIVE P(_)
        P(i) == IF i > Len(shape) THEN 1 ELSE shape[i] * P(i + 1)
    IN P(1)

(***************************************************************************)
(* The inputs of a run.                                                    *)
(***************************************************************************)
\* The environment jaxmarl.make returns: the product of its observation
\* shape, the size of its action space and its number of agents.
Worlds ==
    [obs_dim : 0..MaxObsDim, action_n : 0..MaxActionDim, num_agents : {NumAgents}]

\* The hyperparameters the script reads from the configuration.
Hyper ==
    [NUM_ENVS : 1..MaxEnvs, NUM_STEPS : 1..MaxSteps,
     TOTAL_TIMESTEPS : 0..MaxTotal, NUM_MINIBATCHES : 1..MaxMinibatches,
     UPDATE_EPOCHS : 1..MaxEpochs, SEED : 0..MaxSeed]

HyperKeys ==
    {"NUM_ENVS", "NUM_STEPS", "TOTAL_TIMESTEPS", "NUM_MINIBATCHES",
     "UPDATE_EPOCHS", "SEED"}

ConfigOf(h) ==
    [k \in HyperKeys \cup {"ENV_NAME", "ENV_KWARGS"} |->
        CASE k = "NUM_ENVS" -> h.NUM_ENVS
          [] k = "NUM_STEPS" -> h.NUM_STEPS
          [] k = "TOTAL_TIMESTEPS" -> h.TOTAL_TIMESTEPS
          [] k = "NUM_MINIBATCHES" -> h.NUM_MINIBATCHES
          [] k = "UPDATE_EPOCHS" -> h.UPDATE_EPOCHS
          [] k = "SEED" -> h.SEED
          [] k = "ENV_NAME" -> 0
          [] OTHER -> 0]

\* The DIMS dictionary main stores in the config.
DimsOf(base, act) ==
    [base_obs_dim |-> base, action_dim |-> act, augmented_obs_dim |-> base + act]

NoRunner == [bound |-> FALSE]

(***************************************************************************)
(* jax.random: a key is a number, split gives two new keys, and a sample   *)
(* is a function of the key, of the distribution and of the batch index.   *)
(***************************************************************************)
Split(key) == <<2 * key + 1, 2 * key + 2>>

Sample(key, agent, e, n) == (key + agent + e) % n

(***************************************************************************)
(* main, lines 860-938.                                                    *)
(***************************************************************************)
Abort(e) ==
    /\ pc' = "aborted"
    /\ exc' = e

\* Lines 873-877: the required keys.
required_keys == {"ENV_NAME", "ENV_KWARGS"}

MainValidate ==
    /\ pc = "validate"
    /\ stages' = Append(stages, "configuration")
    /\ IF required_keys \subseteq DOMAIN config
       THEN pc' = "make_env" /\ exc' = exc
       ELSE Abort("ValueError: Missing required config key")
    /\ UNCHANGED <<entry, config, world, runner_state, ys, traj_batch, metrics,
                   gs, es, restVars>>

\* Lines 879-891: the environment is built and its dimensions are read.
MainMakeEnv ==
    /\ pc = "make_env"
    /\ stages' = Append(stages, "environment")
    /\ pc' = "store_dims"
    /\ UNCHANGED <<entry, exc, config, world, runner_state, ys, traj_batch,
                   metrics, gs, es, restVars>>

\* Lines 888-891.
main_dims(env) == DimsOf(env.obs_dim, env.action_n)

\* Lines 893-914: the three assertions, config["DIMS"], wandb.init.
MainStoreDims ==
    /\ pc = "store_dims"
    /\ LET d == main_dims(world) IN
       IF ~(d.base_obs_dim > 0)
       THEN Abort("AssertionError: Invalid base observation dimension")
            /\ config' = config
       ELSE IF ~(d.action_dim > 0)
       THEN Abort("AssertionError: Invalid action dimension") /\ config' = config
       ELSE IF ~(d.augmented_obs_dim > d.base_obs_dim)
       THEN Abort("AssertionError: Augmented dim must be larger than base dim")
            /\ config' = config
       ELSE /\ config' = Put(config, "DIMS", d)
            /\ pc' = "mt_env"
            /\ exc' = exc
    /\ UNCHANGED <<entry, world, stages, runner_state, ys, traj_batch, metrics,
                   gs, es, restVars>>

(***************************************************************************)
(* make_train, lines 246-326 and 858.                                      *)
(***************************************************************************)
\* Lines 271-273: dims = config["DIMS"], env = jaxmarl.make(...).
MakeTrainEnv ==
    /\ pc = "mt_env"
    /\ pc' = "mt_assert"
    /\ UNCHANGED <<entry, exc, config, world, stages, runner_state, ys,
                   traj_batch, metrics, gs, es, restVars>>

\* Lines 275-277: the two assertions, in their order; "ok" when both hold.
make_train_asserts_action_unchecked(env, dims) ==
    IF env.obs_dim # dims.base_obs_dim
    THEN "AssertionError: Observation dimension mismatch"
    ELSE "ok"

make_train_asserts(env, dims) ==
    IF env.obs_dim # dims.base_obs_dim
    THEN "AssertionError: Observation dimension mismatch"
    ELSE IF env.action_n # dims.action_dim
    THEN "AssertionError: Action dimension mismatch"
    ELSE "ok"

MakeTrainAssert ==
    /\ pc = "mt_assert"
    /\ LET r == make_train_asserts(world, config["DIMS"]) IN
       IF r = "ok" THEN pc' = "mt_derive" /\ exc' = exc ELSE Abort(r)
    /\ UNCHANGED <<entry, config, world, stages, runner_state, ys, traj_batch,
                   metrics, gs, es, restVars>>

\* Line 280.
num_actors(cfg, env) == env.num_agents * cfg["NUM_ENVS"]

\* Lines 281-283.
num_updates(cfg) ==
    (cfg["TOTAL_TIMESTEPS"] \div cfg["NUM_STEPS"]) \div cfg["NUM_ENVS"]

\* Lines 284-286; cfg holds NUM_ACTORS already.
minibatch_size_per_env(cfg) ==
    (cfg["NUM_ENVS"] * cfg["NUM_STEPS"]) \div cfg["NUM_MINIBATCHES"]

minibatch_size(cfg) ==
    (cfg["NUM_ACTORS"] * cfg["NUM_STEPS"]) \div cfg["NUM_MINIBATCHES"]

\* Lines 279-286: the three derived keys, written in this order.
derived_config(cfg, env) ==
    LET c1 == Put(cfg, "NUM_ACTORS", num_actors(cfg, env))
        c2 == Put(c1, "NUM_UPDATES", num_updates(c1))
    IN Put(c2, "MINIBATCH_SIZE", minibatch_size(c2))

DerivedKeys == {"NUM_ACTORS", "NUM_UPDATES", "MINIBATCH_SIZE"}

MakeTrainDerive ==
    /\ pc = "mt_derive"
    /\ config' = derived_config(config, world)
    /\ pc' = "mt_return"
    /\ UNCHANGED <<entry, exc, world, stages, runner_state, ys, traj_batch,
                   metrics, gs, es, restVars>>

\* Lines 288-326 and 858: the wrapper, the schedules, and `return train`.
\* main calls the returned function at once (lines 919-920); a direct caller
\* of make_train holds it.
MakeTrainReturn ==
    /\ pc = "mt_return"
    /\ pc' = IF entry = "main" THEN "train_init" ELSE "returned"
    /\ UNCHANGED <<entry, exc, config, world, stages, runner_state, ys,
                   traj_batch, metrics, gs, es, restVars>>

(***************************************************************************)
(* Arrays: a record with a shape; the agent axis, where there is one,      *)
(* carries the order of the agents along it.                               *)
(***************************************************************************)
\* jnp.squeeze: every axis of size 1 is removed.
Squeeze(shape) == SelectSeq(shape, LAMBDA n : n # 1)

\* x.reshape(x.shape[0], -1): the first axis is kept, the others are merged.
FlattenRest(shape) == <<shape[1], Prod(Tail(shape))>>

\* jax.nn.one_hot(a, n): the vector of length n with its 1 at index a.
OneHot_from_one(a, n) == [i \in 0..(n - 1) |-> IF i = a + 1 THEN 1 ELSE 0]

OneHot(a, n) == [i \in 0..(n - 1) |-> IF i = a THEN 1 ELSE 0]

Zeros(n) == [i \in 0..(n - 1) |-> 0]

\* The observation dict env.reset and env.step return for a batch of n
\* environments in state sid.
ObsOf(env, n, sid) ==
    [a \in {"agent_0", "agent_1"} |->
        [shape |-> <<n, env.obs_dim>>, agent |-> a, sid |-> sid]]

(***************************************************************************)
(* train, lines 330-856.                                                   *)
(***************************************************************************)
\* Lines 364-370: the size of the input the parameters are initialized with.
init_x_dim(dims) == dims.augmented_obs_dim

\* Lines 351-415 and 851-852: network and optimizer, TrainState.create (the
\* step counter starts at 0), the reset of the NUM_ENVS environments, and the
\* runner state (train_state, env_state, obsv, 0, _rng).
train_init(cfg, env) ==
    LET k1 == Split(cfg["SEED"])
        k2 == Split(k1[1])
        k3 == Split(k2[1])
    IN [bound |-> TRUE,
        train_state |->
            [params |-> [in_dim |-> init_x_dim(cfg["DIMS"]), version |-> 0],
             step |-> 0],
        env_state |-> [sid |-> 0, resets |-> 1],
        last_obs |-> ObsOf(env, cfg["NUM_ENVS"], 0),
        update_step |-> 0,
        rng |-> k3[2]]

TrainInit ==
    /\ pc = "train_init"
    /\ stages' = Append(stages, "network")
    /\ runner_state' = train_init(config, world)
    /\ pc' = "train_scan"
    /\ UNCHANGED <<entry, exc, config, world, ys, traj_batch, metrics, gs, es, restVars>>

\* Lines 853-855: jax.lax.scan(_update_step, runner_state, None, NUM_UPDATES).
\* scan evaluates its body on entry whatever the length is, so the run enters
\* _update_step also when NUM_UPDATES is 0.
TrainScan ==
    /\ pc = "train_scan"
    /\ stages' = Append(stages, "training")
    /\ pc' = "env_step"
    /\ UNCHANGED <<entry, exc, config, world, runner_state, ys, traj_batch,
                   metrics, gs, es, restVars>>

\* Lines 478-496: the width of the augmented observation of either agent.
agent_obs_augmented_dim_unaugmented(obs_shape, env) ==
    FlattenRest(obs_shape)[2]

agent_obs_augmented_dim(obs_shape, env) ==
    FlattenRest(obs_shape)[2] + env.action_n

\* Lines 487 and 496: the parameters network.apply is called with.
network_params_updated(train_state) ==
    [train_state.params EXCEPT !.version = @ + 1]

network_params(train_state) == train_state.params

\* _env_step, lines 469-548: the new runner state and what the step returns.
env_step(rs, cfg, env) ==
    LET n == cfg["NUM_ENVS"]
        k1 == Split(rs.rng)
        \* lines 482-489: agent_1 first, on its observation and zeros
        agent_1_obs_augmented ==
            [shape |-> <<n, agent_obs_augmented_dim(rs.last_obs["agent_1"].shape, env)>>,
             agent |-> "agent_1", sid |-> rs.last_obs["agent_1"].sid,
             extra |-> [e \in 1..n |-> Zeros(env.action_n)],
             params |-> network_params(rs.train_state)]
        action_1 == [e \in 1..n |-> Sample(k1[2], 1, e, env.action_n)]
        \* lines 491-498: agent_0 on its observation and agent_1's action
        agent_0_obs_augmented ==
            [shape |-> <<n, agent_obs_augmented_dim(rs.last_obs["agent_0"].shape, env)>>,
             agent |-> "agent_0", sid |-> rs.last_obs["agent_0"].sid,
             extra |-> [e \in 1..n |-> OneHot(action_1[e], env.action_n)],
             params |-> network_params(rs.train_state)]
        action_0 == [e \in 1..n |-> Sample(k1[2], 0, e, env.action_n)]
        processed_obs ==
            [a \in {"agent_0", "agent_1"} |->
                IF a = "agent_0" THEN agent_0_obs_augmented
                ELSE agent_1_obs_augmented]
        \* lines 511-524: the environment steps on both actions
        env_act ==
            [a \in {"agent_0", "agent_1"} |->
                IF a = "agent_0" THEN action_0 ELSE action_1]
        k2 == Split(k1[1])
        env_state == [sid |-> rs.env_state.sid + 1, resets |-> rs.env_state.resets,
                      act |-> env_act]
        obsv == ObsOf(env, n, env_state.sid)
        info == [shaped_reward |-> [of |-> rs.env_state.sid],
                 reward |-> [agent |-> "agent_0", of |-> rs.env_state.sid]]
        \* line 531
        current_timestep == rs.update_step * cfg["NUM_STEPS"] * cfg["NUM_ENVS"]
        \* lines 534-545
        transition ==
            [done |-> [shape |-> Squeeze(<<2, n>>),
                       agents |-> <<"agent_1", "agent_0">>],
             action |-> [shape |-> <<2, n>>,
                         agents |-> <<"agent_1", "agent_0">>,
                         val |-> <<action_1, action_0>>],
             value |-> [shape |-> <<2, n>>,
                        agents |-> <<"agent_1", "agent_0">>],
             reward |-> [shape |-> Squeeze(<<2, n>>),
                         agents |-> <<"agent_1", "agent_0">>,
                         timestep |-> current_timestep],
             log_prob |-> [shape |-> <<2, n>>,
                           agents |-> <<"agent_1", "agent_0">>],
             obs |-> processed_obs]
    IN [runner_state |->
            [bound |-> TRUE,
             train_state |-> rs.train_state,
             env_state |-> env_state,
             last_obs |-> obsv,
             update_step |-> rs.update_step,
             rng |-> k2[1]],
        out |-> <<transition, info, processed_obs>>]

\* Lines 550-552: one application of _env_step by the scan over NUM_STEPS.
EnvStep ==
    /\ pc = "env_step"
    /\ Len(ys) < config["NUM_STEPS"]
    /\ LET r == env_step(runner_state, config, world) IN
        /\ runner_state' = r.runner_state
        /\ ys' = Append(ys, r.out)
    /\ UNCHANGED <<entry, pc, exc, config, world, stages, traj_batch, metrics,
                   gs, es, restVars>>

\* Line 550: runner_state, (traj_batch, info) = jax.lax.scan(...).  The scan
\* returns its stacked outputs with the structure of what _env_step returns;
\* unpacking them into the names on the left fails when the counts differ.
scan_outputs_arity(rs, cfg, env) == Len(env_step(rs, cfg, env).out)

ScanReturn ==
    /\ pc = "env_step"
    /\ Len(ys) = config["NUM_STEPS"]
    /\ IF scan_outputs_arity(runner_state, config, world) = UnpackNames
       THEN /\ traj_batch' = [t \in 1..Len(ys) |-> ys[t][1]]
            /\ pc' = "last_val"
            /\ exc' = exc
       ELSE /\ Abort("ValueError: too many values to unpack (expected 2)")
            /\ traj_batch' = traj_batch
    /\ UNCHANGED <<entry, config, world, stages, runner_state, ys, metrics,
                   gs, es, restVars>>

(***************************************************************************)
(* The run of main, and of a direct call of make_train.                    *)
(***************************************************************************)
GaeIdle == [pc |-> "idle"]

EpochIdle == [pc |-> "idle"]

\* A caller of make_train passes a config that holds DIMS: the dimensions of
\* the environment, or dimensions that differ from them.
CallerDims(env) ==
    {DimsOf(b, a) : b \in {env.obs_dim, env.obs_dim + 1},
                    a \in {env.action_n, env.action_n + 1}}

InitMain ==
    /\ entry = "main"
    /\ pc = "validate"
    /\ world \in Worlds
    /\ \E h \in Hyper, missing \in SUBSET required_keys :
            config = Without(ConfigOf(h), missing)

InitMakeTrain ==
    /\ entry = "make_train"
    /\ pc = "mt_env"
    /\ world \in Worlds
    /\ \E h \in Hyper :
            \E d \in CallerDims(world) : config = Put(ConfigOf(h), "DIMS", d)

Init ==
    /\ InitMain \/ InitMakeTrain
    /\ exc = "none"
    /\ stages = <<>>
    /\ runner_state = NoRunner
    /\ ys = <<>>
    /\ traj_batch = "unbound"
    /\ metrics = <<>>
    /\ gs = GaeIdle
    /\ es = EpochIdle
    /\ RestIdle

Next ==
    \/ MainValidate
    \/ MainMakeEnv
    \/ MainStoreDims
    \/ MakeTrainEnv
    \/ MakeTrainAssert
    \/ MakeTrainDerive
    \/ MakeTrainReturn
    \/ TrainInit
    \/ TrainScan
    \/ EnvStep
    \/ ScanReturn

Spec == Init /\ [][Next]_vars

(***************************************************************************)
(* What each call of the network is given, lines 370, 487, 496, 557, 705   *)
(* and 217-218: an array with its last dimension, a dict, or nothing when  *)
(* the expression that builds the input raises.                            *)
(***************************************************************************)
NetworkSites ==
    {"init", "env_step_agent_1", "env_step_agent_0", "last_val", "loss",
     "get_rollout"}

\* get_rollout, lines 198 and 211: the observation of one agent from
\* env.reset, flattened.
rollout_obs_dim(env) == Prod(<<env.obs_dim>>)

network_input(site, cfg, env) ==
    CASE site = "init" ->
            [kind |-> "array", last_dim |-> init_x_dim(cfg["DIMS"])]
      [] site = "env_step_agent_1" ->
            [kind |-> "array",
             last_dim |-> agent_obs_augmented_dim(
                 ObsOf(env, cfg["NUM_ENVS"], 0)["agent_1"].shape, env)]
      [] site = "env_step_agent_0" ->
            [kind |-> "array",
             last_dim |-> agent_obs_augmented_dim(
                 ObsOf(env, cfg["NUM_ENVS"], 0)["agent_0"].shape, env)]
      \* line 556: batchify and env_dims are names the module never defines
      [] site = "last_val" -> [kind |-> "NameError", last_dim |-> 0]
      \* line 705: traj_batch.obs is the dict processed_obs of line 544
      [] site = "loss" -> [kind |-> "dict", last_dim |-> 0]
      \* lines 211-218: the flattened observation, with nothing appended
      [] OTHER -> [kind |-> "array", last_dim |-> rollout_obs_dim(env)]

(***************************************************************************)
(* Claims about the run of main and of make_train.                         *)
(***************************************************************************)
Pipeline ==
    <<"configuration", "environment", "network", "training", "visualization">>

IsPrefix(s, t) == Len(s) <= Len(t) /\ \A i \in 1..Len(s) : s[i] = t[i]

RunOver == pc \in {"aborted", "finished"}

\* The configuration passed the validations of main and the assertions of
\* make_train.
PassedAssertions == entry = "main" /\ DerivedKeys \subseteq DOMAIN config

\* C1: in every run of main the stages happen in the order configuration
\* validation, environment construction, network initialization, training,
\* visualization: the stages entered so far are always a prefix of that
\* sequence; inside an update step nothing follows the rollout collection
\* before all NUM_STEPS environment steps are done, and a metric is logged only
\* after the gradient epochs of its update; the visualization starts only
\* after all NUM_UPDATES update steps; and a run whose configuration passed the
\* validations has gone through all the stages when it is over.
C1_StagesInOrder ==
    entry = "main" =>
        /\ IsPrefix(stages, Pipeline)
        /\ (runner_state.bound /\ pc \notin {"train_scan", "env_step"}) =>
                Len(ys) = config["NUM_STEPS"]
        /\ runner_state.bound =>
                Len(metrics) * config["UPDATE_EPOCHS"] * config["NUM_MINIBATCHES"]
                    <= runner_state.train_state.step
        /\ Len(stages) = Len(Pipeline) => Len(metrics) = config["NUM_UPDATES"]
        /\ (RunOver /\ PassedAssertions) => stages = Pipeline

\* C2: for every configuration that passes the validations in main and the
\* dimension assertions in make_train the run completes: it is never ended by
\* an exception of the program's own code.
C2_RunCompletes == PassedAssertions => pc # "aborted"

\* C5: every input passed to the network (at initialization, in rollout
\* collection, for the bootstrap value, in the loss and in get_rollout) is an
\* array whose last dimension is augmented_obs_dim = base_obs_dim + action_dim,
\* the size the parameters were initialized with: this holds of the inputs the
\* run has passed so far, and of what each call of the network is given.
C5_NetworkInputDims ==
    PassedAssertions =>
        LET aug == config["DIMS"].base_obs_dim + config["DIMS"].action_dim IN
        /\ runner_state.bound =>
                /\ runner_state.train_state.params.in_dim = aug
                /\ \A t \in 1..Len(ys) :
                        \A a \in {"agent_0", "agent_1"} :
                            LET x == ys[t][1].obs[a] IN
                                /\ x.shape[Len(x.shape)] = aug
                                /\ x.params.in_dim = aug
        /\ \A site \in NetworkSites :
                LET x == network_input(site, config, world) IN
                    /\ x.kind = "array"
                    /\ x.last_dim = config["DIMS"].augmented_obs_dim
                    /\ x.last_dim = aug

\* C6: rollout collection is a fixed-length unroll: once the collection of an
\* update step is over, exactly NUM_STEPS transitions have been accumulated in
\* traj_batch, the t-th of them taken on the observation the preceding step
\* left.
C6_FixedLengthUnroll ==
    (PassedAssertions /\ runner_state.bound
        /\ pc \notin {"train_scan", "env_step"}) =>
        /\ traj_batch # "unbound"
        /\ Len(traj_batch) = config["NUM_STEPS"]
        /\ \A t \in 1..Len(traj_batch) :
                traj_batch[t].obs["agent_0"].sid
                    = (runner_state.env_state.sid - config["NUM_STEPS"]) + (t - 1)

\* C7: when the run of train is over, the step counter of the training state
\* equals NUM_UPDATES * UPDATE_EPOCHS * NUM_MINIBATCHES.
C7_GradientSteps ==
    (PassedAssertions /\ RunOver) =>
        /\ runner_state.bound
        /\ runner_state.train_state.step =
             config["NUM_UPDATES"] * config["UPDATE_EPOCHS"]
                * config["NUM_MINIBATCHES"]

\* The dimensions of the environment differ from the DIMS of the config.
DimsMismatch ==
    /\ "DIMS" \in DOMAIN config
    /\ \/ world.obs_dim # config["DIMS"].base_obs_dim
       \/ world.action_n # config["DIMS"].action_dim

\* C10: when the environment's flattened observation size differs from
\* DIMS.base_obs_dim, or its action count from DIMS.action_dim, make_train ends
\* at its assertions with an AssertionError: no derived key is written, no
\* train function is returned, nothing of train runs, and the aborted call
\* takes no further step.
C10_MakeTrainAborts ==
    DimsMismatch =>
        /\ DerivedKeys \cap DOMAIN config = {}
        /\ pc \in {"mt_env", "mt_assert", "aborted"}
        /\ pc = "aborted" =>
            /\ exc \in {"AssertionError: Observation dimension mismatch",
                        "AssertionError: Action dimension mismatch"}
            /\ ~ENABLED Next
        /\ ~runner_state.bound
        /\ ys = <<>>

\* C10's case: a call of make_train whose DIMS give the wrong action count has
\* ended at the second assertion.
C10_Witness ==
    /\ DimsMismatch
    /\ world.obs_dim = config["DIMS"].base_obs_dim
    /\ pc = "aborted"
    /\ exc = "AssertionError: Action dimension mismatch"

(***************************************************************************)
(* _calculate_gae, lines 561-653.  The arithmetic of _get_advantages is    *)
(* elementwise over the (agent, environment) entries, so a call is          *)
(* modelled on one such entry: traj is its column of the trajectory, one   *)
(* record of done, value and reward per time step.  The numbers are        *)
(* integers, on which the +, - and * of the recursion are exact; GAMMA and  *)
(* GAE_LAMBDA range over a few of them.                                     *)
(***************************************************************************)
GammaVals == {1, 2}

LambdaVals == {1, 3}

TransitionEntries == [done : {0, 1}, value : 0..MaxValue, reward : 0..MaxReward]

Trajectories ==
    UNION {[1..n -> TransitionEntries] : n \in 1..MaxSteps}

\* _get_advantages, lines 584-637: the new carry and the output of one step.
get_advantages_carry_unchanged(carry, transition, cfg) ==
    LET gae == carry[1]
        next_value == carry[2]
        delta == (transition.reward
                    + cfg.GAMMA * next_value * (1 - transition.done))
                 - transition.value
        new_gae == delta + cfg.GAMMA * cfg.GAE_LAMBDA * (1 - transition.done) * gae
    IN [carry |-> <<new_gae, next_value>>, out |-> new_gae]

get_advantages_bootstrap_unmasked(carry, transition, cfg) ==
    LET gae == carry[1]
        next_value == carry[2]
        delta == (transition.reward + cfg.GAMMA * next_value) - transition.value
        new_gae == delta + cfg.GAMMA * cfg.GAE_LAMBDA * (1 - transition.done) * gae
    IN [carry |-> <<new_gae, transition.value>>, out |-> new_gae]

get_advantages(carry, transition, cfg) ==
    LET gae == carry[1]
        next_value == carry[2]
        delta == (transition.reward
                    + cfg.GAMMA * next_value * (1 - transition.done))
                 - transition.value
        new_gae == delta + cfg.GAMMA * cfg.GAE_LAMBDA * (1 - transition.done) * gae
    IN [carry |-> <<new_gae, transition.value>>, out |-> new_gae]

\* Lines 640-646: a scan with reverse=True takes the transitions from the last
\* to the first and stacks each output at the index of its transition.
scan_reverse_stack(outs, out) == <<out>> \o outs

RECURSIVE scan_get_advantages(_, _, _, _)
\* Lines 640-646: the outputs the scan stacks for the transitions 1..i, from
\* the carry it has when it comes to transition i.
scan_get_advantages(traj, i, carry, cfg) ==
    IF i = 0 THEN <<>>
    ELSE LET r == get_advantages(carry, traj[i], cfg)
         IN scan_get_advantages(traj, i - 1, r.carry, cfg) \o <<r.out>>

\* Lines 640-653: the advantages of a call of _calculate_gae.
calculate_gae_advantages(traj, last_val, cfg) ==
    scan_get_advantages(traj, Len(traj), <<0, last_val>>, cfg)

\* Line 653: advantages + traj_batch.value.
gae_targets_on_reward(advantages, traj) ==
    [t \in 1..Len(advantages) |-> advantages[t] + traj[t].reward]

gae_targets(advantages, traj) ==
    [t \in 1..Len(advantages) |-> advantages[t] + traj[t].value]

\* Lines 640-643: the call of the scan, with the initial carry
\* (jnp.zeros_like(last_val), last_val).
InitGae ==
    \E traj \in Trajectories, last_val \in 0..MaxValue,
       g \in GammaVals, l \in LambdaVals :
        gs = [pc |-> "scan", traj |-> traj, last_val |-> last_val,
              GAMMA |-> g, GAE_LAMBDA |-> l,
              carry |-> <<0, last_val>>, i |-> Len(traj),
              advantages |-> <<>>, targets |-> <<>>]

\* One step of the scan: _get_advantages on transition gs.i.
GetAdvantages ==
    /\ gs.pc = "scan"
    /\ gs.i >= 1
    /\ LET r == get_advantages(gs.carry, gs.traj[gs.i], gs) IN
        gs' = [gs EXCEPT !.carry = r.carry,
                         !.advantages = scan_reverse_stack(@, r.out),
                         !.i = @ - 1]
    /\ UNCHANGED <<mainVars, es, restVars>>

\* Line 653: return advantages, advantages + traj_batch.value.
CalculateGaeReturn ==
    /\ gs.pc = "scan"
    /\ gs.i = 0
    /\ gs' = [gs EXCEPT !.pc = "returned",
                        !.targets = gae_targets(gs.advantages, gs.traj)]
    /\ UNCHANGED <<mainVars, es, restVars>>

\* The variables of the run of main, while one function is checked alone.
MainIdle ==
    /\ entry = "none"
    /\ pc = "idle"
    /\ exc = "none"
    /\ config = <<>>
    /\ world = [obs_dim |-> 0, action_n |-> 0, num_agents |-> NumAgents]
    /\ stages = <<>>
    /\ runner_state = NoRunner
    /\ ys = <<>>
    /\ traj_batch = "unbound"
    /\ metrics = <<>>

InitSpecGae == MainIdle /\ InitGae /\ es = EpochIdle /\ RestIdle

NextGae == GetAdvantages \/ CalculateGaeReturn

SpecGae == InitSpecGae /\ [][NextGae]_vars

(***************************************************************************)
(* Claims about _calculate_gae.                                            *)
(***************************************************************************)
\* The value after time step t: the next transition's, last_val after the last.
RefNextValue(g, t) ==
    IF t = Len(g.traj) THEN g.last_val ELSE g.traj[t + 1].value

RECURSIVE RefAdvantage(_, _)
\* A_t = delta_t + GAMMA * GAE_LAMBDA * (1 - done_t) * A_{t+1}, with
\* delta_t = reward_t + GAMMA * V_{t+1} * (1 - done_t) - V_t and A after the
\* last step 0.
RefAdvantage(g, t) ==
    IF t > Len(g.traj) THEN 0
    ELSE LET x == g.traj[t]
             delta == (x.reward + g.GAMMA * RefNextValue(g, t) * (1 - x.done))
                      - x.value
         IN delta + g.GAMMA * g.GAE_LAMBDA * (1 - x.done) * RefAdvantage(g, t + 1)

\* C3: the advantages _calculate_gae returns are, at every time index t, the
\* reference recursion A_t; while the scan runs, the advantages stacked so far
\* are those of the time steps after gs.i and the carry holds A and V of step
\* gs.i + 1.
C3_GaeRecursion ==
    gs.pc \in {"scan", "returned"} =>
        /\ Len(gs.advantages) = Len(gs.traj) - gs.i
        /\ \A k \in 1..Len(gs.advantages) :
                gs.advantages[k] = RefAdvantage(gs, gs.i + k)
        /\ gs.pc = "scan" =>
                gs.carry = <<RefAdvantage(gs, gs.i + 1),
                             IF gs.i = Len(gs.traj) THEN gs.last_val
                             ELSE gs.traj[gs.i + 1].value>>

\* C3's case: a returned call on a trajectory of two or more steps in which
\* the first step is not terminal and the advantage of the second step feeds
\* the first.
C3_Witness ==
    /\ gs.pc = "returned"
    /\ Len(gs.traj) >= 2
    /\ gs.traj[1].done = 0
    /\ gs.advantages[2] # 0
    /\ gs.advantages[1] # gs.advantages[2]

\* C4: the advantages and the targets _calculate_gae returns have NUM_STEPS
\* entries each, and targets[t] = advantages[t] + value[t] for every t.
C4_GaeShapes ==
    gs.pc = "returned" =>
        /\ Len(gs.advantages) = Len(gs.traj)
        /\ Len(gs.targets) = Len(gs.traj)
        /\ \A t \in 1..Len(gs.traj) :
                gs.targets[t] = gs.advantages[t] + gs.traj[t].value

\* C4's case: a returned call whose values and rewards differ at some step.
C4_Witness ==
    /\ gs.pc = "returned"
    /\ Len(gs.traj) >= 2
    /\ \E t \in 1..Len(gs.traj) :
            /\ gs.traj[t].value # gs.traj[t].reward
            /\ gs.targets[t] # gs.advantages[t]

(***************************************************************************)
(* _update_epoch, lines 771-815, applied to a batch with the shapes the    *)
(* rollout scan and _calculate_gae give it.                                *)
(***************************************************************************)
\* The leaves of a Transition in the order jax.tree_map visits them: the
\* fields in the order of their declaration (lines 135-140), the keys of the
\* obs dict sorted.
transition_leaves(tr) ==
    <<[name |-> "done", shape |-> tr.done.shape],
      [name |-> "action", shape |-> tr.action.shape],
      [name |-> "value", shape |-> tr.value.shape],
      [name |-> "reward", shape |-> tr.reward.shape],
      [name |-> "log_prob", shape |-> tr.log_prob.shape],
      [name |-> "obs.agent_0", shape |-> tr.obs["agent_0"].shape],
      [name |-> "obs.agent_1", shape |-> tr.obs["agent_1"].shape]>>

\* Lines 550-552: the scan stacks the NUM_STEPS outputs along a new first axis.
stacked(leaves, n) ==
    [i \in 1..Len(leaves) |->
        [name |-> leaves[i].name, shape |-> <<n>> \o leaves[i].shape]]

\* Line 781: batch = (traj_batch, advantages, targets); the advantages and
\* the targets have the shape of traj_batch.value (lines 630-653).
batch_leaves(cfg, env) ==
    LET tr == env_step(train_init(cfg, env), cfg, env).out[1]
        traj == stacked(transition_leaves(tr), cfg["NUM_STEPS"])
    IN traj \o <<[name |-> "advantages", shape |-> traj[3].shape],
                 [name |-> "targets", shape |-> traj[3].shape]>>

\* Line 774.
batch_size(cfg) == cfg["MINIBATCH_SIZE"] * cfg["NUM_MINIBATCHES"]

\* Lines 788-790: the shape x is reshaped to.
reshape_target(cfg, shape) ==
    <<batch_size(cfg)>> \o SubSeq(shape, 3, Len(shape))

\* jnp.reshape succeeds when the two shapes hold the same number of entries.
CanReshape(shape, target) == Prod(shape) = Prod(target)

\* jax.random.permutation(_rng, batch_size), line 780, as a function of the key.
permutation(key, n) == [i \in 0..(n - 1) |-> (i + key) % n]

\* The configurations main can hand to train: the assertions of lines 894-896
\* hold of the environment.
TrainWorlds == {w \in Worlds : w.obs_dim > 0 /\ w.action_n > 0}

InitEpoch ==
    \E h \in Hyper, w \in TrainWorlds :
        LET cfg == derived_config(
                       Put(ConfigOf(h), "DIMS", main_dims(w)), w)
        IN es = [pc |-> "assert", exc |-> "none", cfg |-> cfg,
                 batch |-> batch_leaves(cfg, w), k |-> 1,
                 permutation |-> <<>>, reshaped |-> <<>>,
                 minibatches |-> <<>>, step |-> 0]

\* Lines 771-777: the batch size and the assertion on it.
EpochAssert ==
    /\ es.pc = "assert"
    /\ IF batch_size(es.cfg) = es.cfg["NUM_STEPS"] * es.cfg["NUM_ACTORS"]
       THEN es' = [es EXCEPT !.pc = "permutation"]
       ELSE es' = [es EXCEPT
                !.pc = "aborted",
                !.exc = "AssertionError: batch size must be equal to number of steps * number of actors"]
    /\ UNCHANGED <<mainVars, gs, restVars>>

\* Lines 779-781.
EpochPermutation ==
    /\ es.pc = "permutation"
    /\ es' = [es EXCEPT !.pc = "reshape",
                        !.permutation =
                            permutation(es.cfg["SEED"], batch_size(es.cfg))]
    /\ UNCHANGED <<mainVars, gs, restVars>>

\* Lines 787-792: jax.tree_map reshapes the leaves of the batch one by one;
\* the first leaf that cannot take its new shape ends the call.
EpochReshape ==
    /\ es.pc = "reshape"
    /\ es.k <= Len(es.batch)
    /\ LET x == es.batch[es.k]
           target == reshape_target(es.cfg, x.shape)
       IN IF CanReshape(x.shape, target)
          THEN es' = [es EXCEPT
                    !.reshaped = Append(@, [name |-> x.name, shape |-> target]),
                    !.k = @ + 1]
          ELSE es' = [es EXCEPT !.pc = "aborted",
                                !.exc = "TypeError: cannot reshape array"]
    /\ UNCHANGED <<mainVars, gs, restVars>>

InitSpecEpoch == MainIdle /\ gs = GaeIdle /\ InitEpoch /\ RestIdle

NextEpoch == EpochAssert \/ EpochPermutation \/ EpochReshape

SpecEpoch == InitSpecEpoch /\ [][NextEpoch]_vars

(***************************************************************************)
(* Claims about _update_epoch.                                             *)
(***************************************************************************)
BatchAssertionError ==
    "AssertionError: batch size must be equal to number of steps * number of actors"

\* The call has gone past the reshape of the batch, or has been ended.
EpochPastReshape == es.pc \notin {"idle", "assert", "permutation", "reshape"}

\* C8: in an epoch whose batch-size assertion holds, the minibatches are a
\* partition of the batch: there are NUM_MINIBATCHES of them with
\* MINIBATCH_SIZE samples each, every one of the NUM_STEPS * NUM_ACTORS samples
\* is in exactly one, and the transition, the advantage and the target at one
\* position belong to the same sample.
C8_MinibatchPartition ==
    (EpochPastReshape /\ es.exc # BatchAssertionError) =>
        /\ Len(es.minibatches) = es.cfg["NUM_MINIBATCHES"]
        /\ \A m \in 1..Len(es.minibatches) :
                /\ Len(es.minibatches[m]) = es.cfg["MINIBATCH_SIZE"]
                /\ \A j \in 1..Len(es.minibatches[m]) :
                        LET row == es.minibatches[m][j] IN
                            /\ row.transition = row.advantage
                            /\ row.transition = row.target
        /\ \A id \in 0..(es.cfg["NUM_STEPS"] * es.cfg["NUM_ACTORS"] - 1) :
                Cardinality(
                    {mj \in {<<m, j>> : m \in 1..Len(es.minibatches),
                                         j \in 1..es.cfg["MINIBATCH_SIZE"]} :
                        es.minibatches[mj[1]][mj[2]].transition = id}) = 1

\* C9 as stated: for every configuration with positive NUM_ENVS, NUM_STEPS and
\* NUM_MINIBATCHES the batch size equals NUM_STEPS * NUM_ACTORS, so the
\* assertion of _update_epoch never fails.
C9_AssertionNeverFails ==
    es.pc \notin {"idle", "assert"} =>
        /\ batch_size(es.cfg) = es.cfg["NUM_STEPS"] * es.cfg["NUM_ACTORS"]
        /\ es.exc # BatchAssertionError

\* C9 as amended: the batch size equals NUM_STEPS * NUM_ACTORS exactly when
\* NUM_MINIBATCHES divides NUM_ACTORS * NUM_STEPS, and is smaller otherwise;
\* the assertion of _update_epoch holds in the first case and fails in the
\* second.
C9_AssertionIffDivides ==
    es.pc # "idle" =>
        LET total == es.cfg["NUM_STEPS"] * es.cfg["NUM_ACTORS"]
            divides == total % es.cfg["NUM_MINIBATCHES"] = 0
        IN /\ es.cfg["NUM_ACTORS"] = NumAgents * es.cfg["NUM_ENVS"]
           /\ (batch_size(es.cfg) = total) <=> divides
           /\ batch_size(es.cfg) <= total
           /\ es.pc # "assert" => ((es.exc = BatchAssertionError) <=> ~divides)

\* C9's case: the assertion has been evaluated and held for a configuration
\* with more than one minibatch.
C9_Witness ==
    /\ es.pc = "permutation"
    /\ es.cfg["NUM_MINIBATCHES"] > 1
    /\ batch_size(es.cfg) = es.cfg["NUM_STEPS"] * es.cfg["NUM_ACTORS"]

(***************************************************************************)
(* The learning rate of the optimizer, lines 304-319 and 372-400.  The     *)
(* multiplier is a float in the code; the model keeps its exact value as   *)
(* the fraction num / den.                                                 *)
(***************************************************************************)
\* Line 318: frac = 1.0 - (count // (NUM_MINIBATCHES * UPDATE_EPOCHS))
\*                        / NUM_UPDATES.
linear_schedule(count, cfg) ==
    [num |-> cfg["NUM_UPDATES"]
                - count \div (cfg["NUM_MINIBATCHES"] * cfg["UPDATE_EPOCHS"]),
     den |-> cfg["NUM_UPDATES"]]

\* Lines 389-399: the learning rate optax.adam is built with, as a multiple
\* of LR: the schedule when ANNEAL_LR is set, LR itself otherwise.
create_optimizer(cfg, count) ==
    IF cfg["ANNEAL_LR"] THEN linear_schedule(count, cfg)
    ELSE [num |-> 1, den |-> 1]

\* Lines 811-813 and 829-835 under the scan of line 853: the number of
\* gradient steps of a training.
gradient_steps(cfg) ==
    cfg["NUM_UPDATES"] * cfg["UPDATE_EPOCHS"] * cfg["NUM_MINIBATCHES"]

\* Lines 406-410: the optimizer state TrainState.create builds; the count of
\* the schedule starts at 0.
InitSchedule ==
    \E h \in Hyper, anneal \in BOOLEAN :
        ss = [pc |-> "lr",
              cfg |-> Put(Put(ConfigOf(h), "NUM_UPDATES", num_updates(ConfigOf(h))),
                          "ANNEAL_LR", anneal),
              count |-> 0,
              lrs |-> <<>>]

\* Line 768: apply_gradients.  The optimizer evaluates its learning rate at
\* the number of gradient steps applied so far, then counts this one.
ApplyGradients ==
    /\ ss.pc = "lr"
    /\ ss.count < gradient_steps(ss.cfg)
    /\ ss' = [ss EXCEPT !.lrs = Append(@, create_optimizer(ss.cfg, ss.count)),
                        !.count = @ + 1]
    /\ UNCHANGED <<mainVars, gs, es, ms>>

InitSpecLr == MainIdle /\ gs = GaeIdle /\ es = EpochIdle /\ InitSchedule /\ ms = MpeIdle

NextLr == ApplyGradients

SpecLr == InitSpecLr /\ [][NextLr]_vars

(***************************************************************************)
(* Claims about the learning rate.                                         *)
(***************************************************************************)
\* C11: the multiplier of linear_schedule goes from 1.0 to 0.0 over the
\* training: the first gradient step (count 0) is taken with multiplier 1
\* and the last one (count NUM_UPDATES*NUM_MINIBATCHES*UPDATE_EPOCHS - 1)
\* with multiplier 0.
C11_LinearFromOneToZero ==
    (ss.pc = "lr" /\ ss.cfg["ANNEAL_LR"]) =>
        /\ Len(ss.lrs) >= 1 => ss.lrs[1].num = ss.lrs[1].den
        /\ Len(ss.lrs) = gradient_steps(ss.cfg) /\ Len(ss.lrs) > 1 =>
                ss.lrs[Len(ss.lrs)].num = 0

(***************************************************************************)
(* smax/environments/mpe/simple_push.py: the environment SimplePushMPE.    *)
(* An array is a sequence (the code's index i is position i + 1); a dict   *)
(* is the sequence of its <<key, value>> pairs in insertion order.         *)
(* Coordinates are small integers standing for the floats the generator    *)
(* draws, colours are in hundredths.                                       *)
(***************************************************************************)
MaxGood == 2          \* num_good_agents ranges over 0..MaxGood
MaxAdversaries == 2   \* num_adversaries ranges over 0..MaxAdversaries
MaxLandmarks == 3     \* num_landmarks ranges over 1..MaxLandmarks
MaxKey == 2           \* the keys passed to reset_env range over 0..MaxKey
MaxCalls == 3         \* the number of calls made on one environment object

\* Line 22: the number of landmarks the class supports.
SupportedLandmarks == 2
\* Line 40 and line 41: the declared observation sizes.
AdversaryObsSize == 8
GoodObsSize == 19
\* Line 38: the declared action size.
ActionSize == 5
\* Line 24.
dim_c == 2
\* Lines 11-13, in hundredths.
OBS_COLOUR == <<10, 90, 10, 10, 10, 90>>
\* Line 125 and line 126: jnp.full((3,), 0.25) and the 0.75 set in it.
ColourLen == 3
ColourBase == 25
ColourGoal == 75

\* dict(pairs) and d.update(pairs): a key that is present keeps its place
\* and takes the new value, a new key is added at the end.
RECURSIVE dict_update(_, _)
dict_update(d, pairs) ==
    IF pairs = <<>> THEN d
    ELSE LET p == Head(pairs)
             present == \E i \in 1..Len(d) : d[i][1] = p[1]
             d1 == IF present
                   THEN [i \in 1..Len(d) |-> IF d[i][1] = p[1] THEN p ELSE d[i]]
                   ELSE Append(d, p)
         IN dict_update(d1, Tail(pairs))

Keys(d) == [i \in 1..Len(d) |-> d[i][1]]

Lookup(d, k) == (CHOOSE i \in 1..Len(d) : d[i][1] = k) 

\* "adversary_{}".format(i) and "agent_{}".format(i) for i in range(n).
Names(prefix, n) == [i \in 1..n |-> prefix \o ToString(i - 1)]

\* The part of SimpleMPE.__init__ the class relies on: the arguments are
\* kept as attributes of the same names, the entities are the agents and
\* the landmarks, positions have two coordinates.
SimpleMPE_init(self, kw) ==
    [k \in (DOMAIN self) \cup (DOMAIN kw) \cup {"num_entities", "dim_p"} |->
        CASE k = "num_entities" -> kw["num_agents"] + kw["num_landmarks"]
          [] k = "dim_p" -> 2
          [] k \in DOMAIN kw -> kw[k]
          [] OTHER -> self[k]]

\* Line 22: the condition of the assertion.
landmarks_at_most_supported(num_landmarks) == num_landmarks <= SupportedLandmarks

landmarks_supported(num_landmarks) == num_landmarks = SupportedLandmarks

\* Lines 24-53: the attributes of the object after __init__.
SimplePushMPE_init(args) ==
    LET num_agents == args.num_good_agents + args.num_adversaries
        adversaries == Names("adversary_", args.num_adversaries)
        good_agents == Names("agent_", args.num_good_agents)
        agents == adversaries \o good_agents
        action_spaces == [i \in 1..Len(agents) |-> <<agents[i], <<ActionSize>>>>]
        observation_spaces ==
            dict_update(
                [i \in 1..Len(adversaries) |-> <<adversaries[i], <<AdversaryObsSize>>>>],
                [i \in 1..Len(good_agents) |-> <<good_agents[i], <<GoodObsSize>>>>])
        own == [k \in {"num_good_agents", "num_adversaries", "adversaries",
                       "good_agents"} |->
                   CASE k = "num_good_agents" -> args.num_good_agents
                     [] k = "num_adversaries" -> args.num_adversaries
                     [] k = "adversaries" -> adversaries
                     [] OTHER -> good_agents]
        kw == [k \in {"num_agents", "agents", "num_landmarks", "action_spaces",
                      "observation_spaces", "dim_c"} |->
                   CASE k = "num_agents" -> num_agents
                     [] k = "agents" -> agents
                     [] k = "num_landmarks" -> args.num_landmarks
                     [] k = "action_spaces" -> action_spaces
                     [] k = "observation_spaces" -> observation_spaces
                     [] OTHER -> dim_c]
    IN SimpleMPE_init(own, kw)

\* jax.random.split(key, 3).
Split3(key) == <<3 * key + 1, 3 * key + 2, 3 * key + 3>>

\* jax.random.uniform(key, (n, 2), minval, maxval): n rows of two
\* coordinates, each one of -1, 0, 1.
Uniform(key, n) ==
    [i \in 1..n |-> <<((key + 2 * i) % 3) - 1, ((key + i) % 3) - 1>>]

\* jax.random.randint(key, (), minval=0, maxval): a value in 0..maxval-1
\* that the key determines.
Randint(key, maxval) == (key \div 3) % maxval

ZerosArray(n, m) == [i \in 1..n |-> [j \in 1..m |-> 0]]

Sub(p, q) == [j \in 1..Len(p) |-> p[j] - q[j]]

RECURSIVE Flatten(_)
Flatten(rows) == IF rows = <<>> THEN <<>> ELSE Head(rows) \o Flatten(Tail(rows))

\* jnp.roll(a, shift, axis=0): row i of a moves to row (i + shift) mod n.
Roll(a, shift) ==
    IF Len(a) = 0 THEN a
    ELSE [i \in 1..Len(a) |-> a[((i - 1 - shift) % Len(a)) + 1]]

\* a[:n]
Take(a, n) == SubSeq(a, 1, IF n < Len(a) THEN n ELSE Len(a))

\* x.at[i].set(v): an index outside of x changes nothing.
AtSet(x, i, v) == [j \in 1..Len(x) |-> IF j = i + 1 THEN v ELSE x[j]]

\* a[i] for an index i that is an array: an index outside of a is clamped.
Gather(a, i) ==
    a[(IF i < 0 THEN 0 ELSE IF i >= Len(a) THEN Len(a) - 1 ELSE i) + 1]

\* Lines 101-118: _common_stats for the agent of index aidx; the variant
\* leaves out the second roll of lines 115-116.
common_stats_one_roll(self, state, aidx) ==
    LET n == self["num_agents"]
        own == state.p_pos[aidx + 1]
        landmark_pos ==
            [j \in 1..(Len(state.p_pos) - n) |-> Sub(state.p_pos[n + j], own)]
        other_pos == [j \in 1..n |-> Sub(state.p_pos[j], own)]
        other_vel == Take(state.p_vel, n)
    IN [landmark_pos |-> landmark_pos,
        other_pos |-> Take(Roll(other_pos, n - aidx - 1), n - 1),
        other_vel |-> Take(Roll(other_vel, n - aidx - 1), n - 1)]

common_stats(self, state, aidx) ==
    LET n == self["num_agents"]
        own == state.p_pos[aidx + 1]
        landmark_pos ==
            [j \in 1..(Len(state.p_pos) - n) |-> Sub(state.p_pos[n + j], own)]
        other_pos == [j \in 1..n |-> Sub(state.p_pos[j], own)]
        other_vel == Take(state.p_vel, n)
    IN [landmark_pos |-> landmark_pos,
        other_pos |-> Roll(Take(Roll(other_pos, n - aidx - 1), n - 1), aidx),
        other_vel |-> Roll(Take(Roll(other_vel, n - aidx - 1), n - 1), aidx)]

\* Lines 122-136: the observation of the good agent of index aidx.
get_obs_good(self, state, aidx) ==
    LET cs == common_stats(self, state, aidx)
        goal_rel_pos ==
            Sub(Gather(state.p_pos, state.goal + self["num_agents"]),
                state.p_pos[aidx + 1])
        agent_colour ==
            AtSet([j \in 1..ColourLen |-> ColourBase], state.goal + 1, ColourGoal)
    IN state.p_vel[aidx + 1] \o goal_rel_pos \o agent_colour
        \o Flatten(cs.landmark_pos) \o OBS_COLOUR \o Flatten(cs.other_pos)

\* Lines 139-144: the observation of the adversary of index aidx.
get_obs_adversary(self, state, aidx) ==
    LET cs == common_stats(self, state, aidx)
    IN state.p_vel[aidx + 1] \o Flatten(cs.landmark_pos) \o Flatten(cs.other_pos)

\* Lines 146-148: the observation dict, the good agents listed first.
get_obs_good_first(self, state) ==
    dict_update(
        [i \in 1..Len(self["good_agents"]) |->
            <<self["good_agents"][i],
              get_obs_good(self, state, i - 1 + self["num_adversaries"])>>],
        [i \in 1..Len(self["adversaries"]) |->
            <<self["adversaries"][i], get_obs_adversary(self, state, i - 1)>>])

get_obs(self, state) ==
    dict_update(
        [i \in 1..Len(self["adversaries"]) |->
            <<self["adversaries"][i], get_obs_adversary(self, state, i - 1)>>],
        [i \in 1..Len(self["good_agents"]) |->
            <<self["good_agents"][i],
              get_obs_good(self, state, i - 1 + self["num_adversaries"])>>])

\* Lines 77-95: the state reset_env builds; the goal is drawn up to and
\* with num_landmarks in the variant.
reset_state_goal_inclusive(self, key) ==
    LET k == Split3(key)
    IN [p_pos |-> Uniform(k[1], self["num_agents"])
                    \o Uniform(k[2], self["num_landmarks"]),
        p_vel |-> ZerosArray(self["num_entities"], self["dim_p"]),
        c |-> ZerosArray(self["num_agents"], self["dim_c"]),
        done |-> [i \in 1..self["num_agents"] |-> FALSE],
        step |-> 0,
        goal |-> Randint(k[3], self["num_landmarks"] + 1)]

reset_state(self, key) ==
    LET k == Split3(key)
    IN [p_pos |-> Uniform(k[1], self["num_agents"])
                    \o Uniform(k[2], self["num_landmarks"]),
        p_vel |-> ZerosArray(self["num_entities"], self["dim_p"]),
        c |-> ZerosArray(self["num_agents"], self["dim_c"]),
        done |-> [i \in 1..self["num_agents"] |-> FALSE],
        step |-> 0,
        goal |-> Randint(k[3], self["num_landmarks"])]

\* Line 97: reset_env returns the observations of the state and the state.
reset_env(self, key) ==
    LET state == reset_state(self, key)
    IN [obs |-> get_obs(self, state), state |-> state]

\* jnp.linalg.norm of a 2-vector, kept as the number under the root.
Norm(v) == [sqrt |-> v[1] * v[1] + v[2] * v[2]]

\* jnp.min over norms; the reduction has no identity and raises on an
\* array of size zero.
MinNorm(norms) ==
    IF norms = <<>> THEN [exc |-> "ValueError"]
    ELSE [exc |-> "none",
          sqrt |-> CHOOSE m \in {norms[i].sqrt : i \in 1..Len(norms)} :
                        \A i \in 1..Len(norms) : m <= norms[i].sqrt]

\* Lines 152-153: minus the distance of the agent to the goal landmark.
rewards_good(self, state, aidx) ==
    [minus |-> Norm(Sub(Gather(state.p_pos, state.goal + self["num_agents"]),
                        state.p_pos[aidx + 1]))]

\* Lines 155-159: the least distance of a good agent to the goal landmark
\* minus the adversary's own; the variant takes the least over all agents.
rewards_adversary_all_agents(self, state, aidx) ==
    LET goal_pos == Gather(state.p_pos, state.goal + self["num_agents"])
        agent_dist ==
            [j \in 1..self["num_agents"] |-> Sub(goal_pos, state.p_pos[j])]
        pos_rew == MinNorm([j \in 1..Len(agent_dist) |-> Norm(agent_dist[j])])
    IN [plus |-> pos_rew, minus |-> Norm(Sub(goal_pos, state.p_pos[aidx + 1]))]

rewards_adversary(self, state, aidx) ==
    LET goal_pos == Gather(state.p_pos, state.goal + self["num_agents"])
        agent_dist ==
            [j \in 1..(self["num_agents"] - self["num_adversaries"]) |->
                Sub(goal_pos, state.p_pos[self["num_adversaries"] + j])]
        pos_rew == MinNorm([j \in 1..Len(agent_dist) |-> Norm(agent_dist[j])])
    IN [plus |-> pos_rew, minus |-> Norm(Sub(goal_pos, state.p_pos[aidx + 1]))]

\* Lines 161-163: the reward dict, or the exception the evaluation raises.
rewards(self, state) ==
    LET adv == [i \in 1..Len(self["adversaries"]) |->
                    <<self["adversaries"][i], rewards_adversary(self, state, i - 1)>>]
        good == [i \in 1..Len(self["good_agents"]) |->
                    <<self["good_agents"][i],
                      rewards_good(self, state, i - 1 + self["num_adversaries"])>>]
    IN IF \E i \in 1..Len(adv) : adv[i][2].plus.exc # "none"
       THEN [exc |-> "ValueError", value |-> <<>>]
       ELSE [exc |-> "none", value |-> dict_update(adv, good)]

NoState == [bound |-> FALSE]

\* A call SimplePushMPE(num_good_agents, num_adversaries, num_landmarks).
InitMpe ==
    \E g \in 0..MaxGood, a \in 0..MaxAdversaries, l \in 1..MaxLandmarks :
        ms = [pc |-> "assert",
              args |-> [num_good_agents |-> g, num_adversaries |-> a,
                        num_landmarks |-> l],
              exc |-> "none",
              self |-> <<>>,
              state |-> NoState,
              evals |-> <<>>]

\* Line 22.
MpeAssert ==
    /\ ms.pc = "assert"
    /\ IF landmarks_supported(ms.args.num_landmarks)
       THEN ms' = [ms EXCEPT !.pc = "init"]
       ELSE ms' = [ms EXCEPT !.pc = "aborted", !.exc = "AssertionError"]
    /\ UNCHANGED <<mainVars, gs, es, ss>>

\* Lines 24-53.
MpeInit ==
    /\ ms.pc = "init"
    /\ ms' = [ms EXCEPT !.pc = "ready", !.self = SimplePushMPE_init(ms.args)]
    /\ UNCHANGED <<mainVars, gs, es, ss>>

\* A call of reset_env, which evaluates get_obs on the state it builds.
MpeReset ==
    /\ ms.pc = "ready"
    /\ Len(ms.evals) < MaxCalls
    /\ \E key \in 0..MaxKey :
        LET r == reset_env(ms.self, key) IN
            ms' = [ms EXCEPT !.state = r.state,
                             !.evals = Append(@, [fn |-> "get_obs",
                                                  state |-> r.state,
                                                  out |-> [exc |-> "none", value |-> r.obs],
                                                  state_after |-> r.state])]
    /\ UNCHANGED <<mainVars, gs, es, ss>>

\* A call of get_obs on the state of the environment.
MpeGetObs ==
    /\ ms.pc = "ready"
    /\ ms.state # NoState
    /\ Len(ms.evals) < MaxCalls
    /\ ms' = [ms EXCEPT !.evals =
                Append(@, [fn |-> "get_obs",
                           state |-> ms.state,
                           out |-> [exc |-> "none", value |-> get_obs(ms.self, ms.state)],
                           state_after |-> ms.state])]
    /\ UNCHANGED <<mainVars, gs, es, ss>>

\* A call of rewards on the state of the environment.
MpeRewards ==
    /\ ms.pc = "ready"
    /\ ms.state # NoState
    /\ Len(ms.evals) < MaxCalls
    /\ ms' = [ms EXCEPT !.evals =
                Append(@, [fn |-> "rewards",
                           state |-> ms.state,
                           out |-> rewards(ms.self, ms.state),
                           state_after |-> ms.state])]
    /\ UNCHANGED <<mainVars, gs, es, ss>>

InitSpecMpe == MainIdle /\ gs = GaeIdle /\ es = EpochIdle /\ ss = SchedIdle /\ InitMpe

NextMpe == MpeAssert \/ MpeInit \/ MpeReset \/ MpeGetObs \/ MpeRewards

SpecMpe == InitSpecMpe /\ [][NextMpe]_vars

(***************************************************************************)
(* Claims about SimplePushMPE.                                             *)
(***************************************************************************)
GetObsEvals == {i \in 1..Len(ms.evals) : ms.evals[i].fn = "get_obs"}

\* The size the environment declares for the observations of an agent.
DeclaredObsSize(name) ==
    ms.self["observation_spaces"][Lookup(ms.self["observation_spaces"], name)][2][1]

\* C12: in an environment with at least one good agent and at least one
\* adversary, get_obs returns for every adversary a vector of the declared
\* length 8 and for every good agent a vector of the declared length 19.
C12_ObsMatchesDeclaredSpace ==
    (/\ ms.pc = "ready"
     /\ ms.args.num_good_agents >= 1
     /\ ms.args.num_adversaries >= 1) =>
        \A i \in GetObsEvals :
            LET obs == ms.evals[i].out.value IN
            \A j \in 1..Len(obs) :
                /\ Len(obs[j][2]) = DeclaredObsSize(obs[j][1])
                /\ Len(obs[j][2]) =
                        IF j <= ms.args.num_adversaries THEN AdversaryObsSize
                        ELSE GoodObsSize

\* C13: a construction with num_landmarks different from 2 ends in an
\* assertion error before any attribute of the object is set; with
\* num_landmarks equal to 2 the assertion does not fire.
C13_LandmarksAssertion ==
    ms.pc # "idle" =>
        /\ ms.exc = "AssertionError" =>
                /\ ms.pc = "aborted"
                /\ DOMAIN ms.self = {}
                /\ ms.args.num_landmarks # SupportedLandmarks
        /\ (ms.args.num_landmarks # SupportedLandmarks /\ ms.pc # "assert") =>
                /\ ms.exc = "AssertionError"
                /\ DOMAIN ms.self = {}
        /\ ms.args.num_landmarks = SupportedLandmarks => ms.exc = "none"
        /\ DOMAIN ms.self # {} => ms.args.num_landmarks = SupportedLandmarks

C13_Witness ==
    /\ ms.pc = "aborted"
    /\ ms.exc = "AssertionError"
    /\ ms.args.num_landmarks < SupportedLandmarks
    /\ DOMAIN ms.self = {}

\* C14: the state reset_env returns has step 0, done False for every agent,
\* zero velocity for every entity, a zero communication vector for every
\* agent, a position for each of the num_agents + num_landmarks entities and
\* a goal g with 0 <= g < num_landmarks: goal + num_agents is the index of a
\* landmark and goal + 1 an index of the 3-element colour vector.
C14_ResetState ==
    (ms.pc = "ready" /\ ms.state # NoState) =>
        LET st == ms.state
            n == ms.args.num_good_agents + ms.args.num_adversaries
            l == ms.args.num_landmarks
        IN /\ st.step = 0
           /\ Len(st.done) = n
           /\ \A i \in 1..n : st.done[i] = FALSE
           /\ Len(st.p_vel) = n + l
           /\ \A i \in 1..(n + l) : st.p_vel[i] = <<0, 0>>
           /\ Len(st.c) = n
           /\ \A i \in 1..n : st.c[i] = [j \in 1..dim_c |-> 0]
           /\ Len(st.p_pos) = n + l
           /\ \A i \in 1..(n + l) : Len(st.p_pos[i]) = 2
           /\ 0 <= st.goal /\ st.goal < l
           /\ n <= st.goal + n /\ st.goal + n < Len(st.p_pos)
           /\ st.goal + 1 \in 0..(ColourLen - 1)

C14_Witness ==
    /\ ms.pc = "ready"
    /\ ms.state # NoState
    /\ ms.state.goal = ms.args.num_landmarks - 1
    /\ ms.args.num_good_agents + ms.args.num_adversaries > 2

\* An evaluation returned a dict with one entry per agent, the adversaries
\* first and the good agents after them, and left the state as it was.
ReturnsAgentDict(e) ==
    /\ e.out.exc = "none"
    /\ Keys(e.out.value) = ms.self["agents"]
    /\ Keys(e.out.value) = Names("adversary_", ms.args.num_adversaries)
                            \o Names("agent_", ms.args.num_good_agents)
    /\ e.state_after = e.state

\* Two evaluations of the same function on equal states returned the same.
SameOnEqualStates ==
    \A i, j \in 1..Len(ms.evals) :
        (ms.evals[i].fn = ms.evals[j].fn /\ ms.evals[i].state = ms.evals[j].state)
            => ms.evals[i].out = ms.evals[j].out

EvaluatedOn(t, a) == ys[t][3][a]

CollectionOver ==
    /\ runner_state.bound
    /\ pc # "train_scan"
    /\ Len(ys) = config["NUM_STEPS"]

\* The arrays of the transition record the scan has stacked.
CollectedLeaves == stacked(transition_leaves(ys[1][1]), Len(ys))

\* C17: after trajectory collection every field of the transition record
\* (done, action, value, reward, log_prob, obs) is one array whose three
\* leading axes are (time, agent, environment) of sizes
\* (NUM_STEPS, 2, NUM_ENVS).
C17_TransitionLayout ==
    CollectionOver =>
        \A i \in 1..Len(CollectedLeaves) :
            /\ CollectedLeaves[i].name
                    \in {"done", "action", "value", "reward", "log_prob", "obs"}
            /\ Len(CollectedLeaves[i].shape) >= 3
            /\ SubSeq(CollectedLeaves[i].shape, 1, 3)
                    = <<config["NUM_STEPS"], NumAgents, config["NUM_ENVS"]>>

\* The per-agent arrays of an update step: the five fields of a stored
\* transition, the bootstrap value last_val (lines 554-557) and the
\* observations the loss evaluates the network on (line 705).
PerAgentSites ==
    {"done", "action", "value", "reward", "log_prob", "last_val", "loss_obs"}

\* The agents along the agent axis of each of them, in order.
agent_axis(site, tr) ==
    CASE site = "done" -> [kind |-> "array", agents |-> tr.done.agents]
      [] site = "action" -> [kind |-> "array", agents |-> tr.action.agents]
      [] site = "value" -> [kind |-> "array", agents |-> tr.value.agents]
      [] site = "reward" -> [kind |-> "array", agents |-> tr.reward.agents]
      [] site = "log_prob" -> [kind |-> "array", agents |-> tr.log_prob.agents]
      \* line 556: batchify and env_dims are names the module never defines
      [] site = "last_val" -> [kind |-> "NameError", agents |-> <<>>]
      \* line 705: traj_batch.obs is the dict of line 506, keyed by agent
      [] OTHER ->
            [kind |-> "dict",
             agents |-> [i \in 1..NumAgents |->
                            tr.obs["agent_" \o ToString(i - 1)].agent]]

\* C18: the agent order is the same wherever a per-agent array is used:
\* index i of the agent axis is the same agent in done, action, value,
\* reward and log_prob of every stored transition, in the bootstrap value
\* last_val and in the observations the loss evaluates the network on.
C18_AgentOrderConsistent ==
    CollectionOver =>
        \A t \in 1..Len(ys) : \A site \in PerAgentSites :
            /\ agent_axis(site, ys[t][1]).kind = "array"
            /\ agent_axis(site, ys[t][1]).agents
                    = agent_axis("action", ys[t][1]).agents

\* The last environment step of the collection so far.
LastStep == ys[Len(ys)]

\* C19: in every training environment step agent_1 acts first, on its
\* flattened observation extended by action_dim zeros, and agent_0 acts on
\* its flattened observation extended by a vector of length action_dim with
\* a single 1, at the index of the action agent_1 chose in this step; the
\* action the environment is given for agent_1 is the one agent_0's
\* observation encodes.
C19_Agent0SeesAgent1Action ==
    (runner_state.bound /\ Len(ys) >= 1) =>
        LET obs == LastStep[3]
            sent == runner_state.env_state.act
            width == world.obs_dim + world.action_n
        IN /\ obs["agent_1"].shape = <<config["NUM_ENVS"], width>>
           /\ obs["agent_0"].shape = <<config["NUM_ENVS"], width>>
           /\ \A e \in 1..config["NUM_ENVS"] :
                /\ DOMAIN obs["agent_1"].extra[e] = 0..(world.action_n - 1)
                /\ DOMAIN obs["agent_0"].extra[e] = 0..(world.action_n - 1)
                /\ \A i \in 0..(world.action_n - 1) :
                    /\ obs["agent_1"].extra[e][i] = 0
                    /\ obs["agent_0"].extra[e][i]
                            = (IF i = sent["agent_1"][e] THEN 1 ELSE 0)
                /\ sent["agent_1"][e] \in 0..(world.action_n - 1)
                /\ LastStep[1].action.val[1][e] = sent["agent_1"][e]
                /\ LastStep[1].action.val[2][e] = sent["agent_0"][e]

C19_Witness ==
    /\ runner_state.bound
    /\ Len(ys) = MaxSteps
    /\ config["NUM_ENVS"] = MaxEnvs
    /\ runner_state.env_state.act["agent_1"][MaxEnvs] = world.action_n - 1
    /\ world.action_n >= 2
    /\ LastStep[3]["agent_0"].extra[MaxEnvs][world.action_n - 1] = 1

(***************************************************************************)
(* Reward shaping, lines 321-326, 529-532 and 823-826, followed alone over *)
(* the update steps u = 0, 1, ... of a training.  A factor is the fraction *)
(* num / den, a reward the fraction it gives.                              *)
(***************************************************************************)
MaxHorizon == 3       \* REW_SHAPING_HORIZON ranges over 0..MaxHorizon
MaxUpdates == 3       \* NUM_UPDATES ranges over 0..MaxUpdates

\* Lines 322-326: optax.linear_schedule(init_value=1., end_value=0.,
\* transition_steps=REW_SHAPING_HORIZON).  The schedule clips the count to
\* 0..transition_steps and returns 1 - count / transition_steps; built with
\* transition_steps <= 0 it is the constant init_value.
rew_shaping_anneal_unclipped(count, cfg) ==
    LET h == cfg["REW_SHAPING_HORIZON"]
    IN IF h <= 0 THEN [num |-> 1, den |-> 1]
       ELSE [num |-> h - count, den |-> h]

rew_shaping_anneal(count, cfg) ==
    LET h == cfg["REW_SHAPING_HORIZON"]
        clipped == IF count < 0 THEN 0 ELSE IF count > h THEN h ELSE count
    IN IF h <= 0 THEN [num |-> 1, den |-> 1]
       ELSE [num |-> h - clipped, den |-> h]

\* Lines 531 and 824.
current_timestep(update_step, cfg) ==
    update_step * cfg["NUM_STEPS"] * cfg["NUM_ENVS"]

\* Line 532: x + y * rew_shaping_anneal(current_timestep).
shaped(x, y, factor) == [num |-> x * factor.den + y * factor.num, den |-> factor.den]

\* The runner state of line 852 (update_step is 0) and the rewards the
\* environment returns in this training.
InitAnneal ==
    \E t \in 1..MaxSteps, n \in 1..MaxEnvs, u \in 0..MaxUpdates,
       h \in 0..MaxHorizon, r \in 0..MaxReward, s \in 1..(MaxReward + 1) :
        ss = [pc |-> "anneal",
              cfg |-> [k \in {"NUM_STEPS", "NUM_ENVS", "NUM_UPDATES",
                              "REW_SHAPING_HORIZON"} |->
                         CASE k = "NUM_STEPS" -> t
                           [] k = "NUM_ENVS" -> n
                           [] k = "NUM_UPDATES" -> u
                           [] OTHER -> h],
              env_reward |-> r,
              shaped_reward |-> s,
              update_step |-> 0,
              stored |-> <<>>,
              logged |-> <<>>]

\* The transitions stored in update step u so far.
StoredIn(u) == SelectSeq(ss.stored, LAMBDA x : x.update_step = u)

\* Lines 529-532 and 539-542: one environment step of the collection of an
\* update step stores the shaped reward.
AnnealEnvStep ==
    /\ ss.pc = "anneal"
    /\ ss.update_step < ss.cfg["NUM_UPDATES"]
    /\ Len(StoredIn(ss.update_step)) < ss.cfg["NUM_STEPS"]
    /\ LET factor == rew_shaping_anneal(
                        current_timestep(ss.update_step, ss.cfg), ss.cfg)
       IN ss' = [ss EXCEPT !.stored =
                    Append(@, [update_step |-> ss.update_step,
                               factor |-> factor,
                               reward |-> shaped(ss.env_reward,
                                                 ss.shaped_reward, factor)])]
    /\ UNCHANGED <<mainVars, gs, es, ms>>

\* Lines 823-826 and 842: the metric of the update step, then update_step + 1.
AnnealLog ==
    /\ ss.pc = "anneal"
    /\ ss.update_step < ss.cfg["NUM_UPDATES"]
    /\ Len(StoredIn(ss.update_step)) = ss.cfg["NUM_STEPS"]
    /\ LET factor == rew_shaping_anneal(
                        current_timestep(ss.update_step, ss.cfg), ss.cfg)
       IN ss' = [ss EXCEPT !.logged =
                    Append(@, [update_step |-> ss.update_step,
                               factor |-> factor,
                               shaped_reward_annealed |->
                                    shaped(0, ss.shaped_reward, factor)]),
                           !.update_step = @ + 1]
    /\ UNCHANGED <<mainVars, gs, es, ms>>

InitSpecAnneal == MainIdle /\ gs = GaeIdle /\ es = EpochIdle /\ InitAnneal /\ ms = MpeIdle

NextAnneal == AnnealEnvStep \/ AnnealLog

SpecAnneal == InitSpecAnneal /\ [][NextAnneal]_vars

(***************************************************************************)
(* Claims about reward shaping.                                            *)
(***************************************************************************)
FracEq(a, b) == a.num * b.den = b.num * a.den

FracLeq(a, b) == a.num * b.den <= b.num * a.den

\* The linear anneal of the claim: 1 at timestep 0, 0 from
\* REW_SHAPING_HORIZON on, linear between.
LinearAnneal(timestep, horizon) ==
    IF timestep >= horizon THEN [num |-> 0, den |-> 1]
    ELSE [num |-> horizon - timestep, den |-> horizon]

\* The properties of C20 for a training with horizon REW_SHAPING_HORIZON.
ShapingAnnealed ==
    /\ \A i \in 1..Len(ss.stored) :
        LET x == ss.stored[i]
            a == LinearAnneal(current_timestep(x.update_step, ss.cfg),
                              ss.cfg["REW_SHAPING_HORIZON"])
        IN /\ FracEq(x.factor, a)
           /\ FracEq(x.reward, shaped(ss.env_reward, ss.shaped_reward, a))
           /\ current_timestep(x.update_step, ss.cfg)
                    >= ss.cfg["REW_SHAPING_HORIZON"]
                => FracEq(x.reward, [num |-> ss.env_reward, den |-> 1])
           /\ \A j \in 1..Len(ss.stored) :
                /\ ss.stored[j].update_step = x.update_step
                    => ss.stored[j].factor = x.factor
                /\ ss.stored[j].update_step >= x.update_step
                    => FracLeq(ss.stored[j].factor, x.factor)
    /\ \A i \in 1..Len(ss.logged) :
        /\ \A j \in 1..Len(ss.stored) :
            ss.stored[j].update_step = ss.logged[i].update_step
                => ss.stored[j].factor = ss.logged[i].factor
        /\ FracEq(ss.logged[i].shaped_reward_annealed,
                  shaped(0, ss.shaped_reward, ss.logged[i].factor))

episode_state(self, kp, kv, goal) ==
    [p_pos |-> [i \in 1..self["num_entities"] |->
                    IF i <= self["num_agents"] THEN <<i - 1, ((i + kp) % 3) - 1>>
                    ELSE <<i - self["num_agents"] - 1, ((i + kp) % 3) - 1>>],
     p_vel |-> [i \in 1..self["num_entities"] |->
                    IF i <= self["num_agents"] THEN <<i - 1, (i + kv) % 2>>
                    ELSE <<0, 0>>],
     c |-> ZerosArray(self["num_agents"], self["dim_c"]),
     done |-> [i \in 1..self["num_agents"] |-> FALSE],
     step |-> kp + kv,
     goal |-> goal]

InitEpisode ==
    \E g \in 0..MaxGood, a \in 0..MaxAdversaries, kp \in 0..MaxKey,
       kv \in 0..MaxKey, goal \in 0..(SupportedLandmarks - 1) :
        LET args == [num_good_agents |-> g, num_adversaries |-> a,
                     num_landmarks |-> SupportedLandmarks]
            self == SimplePushMPE_init(args)
        IN ms = [pc |-> "episode",
                 args |-> args,
                 exc |-> "none",
                 self |-> self,
                 state |-> episode_state(self, kp, kv, goal),
                 evals |-> <<>>]

\* Line 120: _common_stats, mapped over the agents by jax.vmap.
EpisodeCommonStats ==
    /\ ms.pc = "episode"
    /\ \A i \in 1..Len(ms.evals) : ms.evals[i].fn # "_common_stats"
    /\ ms' = [ms EXCEPT !.evals =
                Append(@, [fn |-> "_common_stats",
                           state |-> ms.state,
                           out |-> [exc |-> "none",
                                    value |-> [i \in 1..ms.self["num_agents"] |->
                                        common_stats(ms.self, ms.state, i - 1)]],
                           state_after |-> ms.state])]
    /\ UNCHANGED <<mainVars, gs, es, ss>>

\* A call of rewards on the state.
EpisodeRewards ==
    /\ ms.pc = "episode"
    /\ \A i \in 1..Len(ms.evals) : ms.evals[i].fn # "rewards"
    /\ ms' = [ms EXCEPT !.evals =
                Append(@, [fn |-> "rewards",
                           state |-> ms.state,
                           out |-> rewards(ms.self, ms.state),
                           state_after |-> ms.state])]
    /\ UNCHANGED <<mainVars, gs, es, ss>>

InitSpecEpisode == MainIdle /\ gs = GaeIdle /\ es = EpochIdle /\ ss = SchedIdle /\ InitEpisode

NextEpisode == EpisodeCommonStats \/ EpisodeRewards

SpecEpisode == InitSpecEpisode /\ [][NextEpisode]_vars

(***************************************************************************)
(* Claims about the observations and rewards of an episode.                *)
(***************************************************************************)
\* The k-th of the agents other than a, in ascending order of their index.
OtherAgent(a, k) == IF k - 1 < a THEN k - 1 ELSE k

\* C21: with N >= 2 agents, the other_pos and other_vel rows computed for
\* agent a are those of the N - 1 other agents, each once, in ascending
\* order of the agent index, and none is agent a's own.
C21_OthersInOrder ==
    (ms.pc = "episode" /\ ms.self["num_agents"] >= 2) =>
        \A i \in 1..Len(ms.evals) :
            ms.evals[i].fn = "_common_stats" =>
                \A a \in 0..(ms.self["num_agents"] - 1) :
                    LET cs == ms.evals[i].out.value[a + 1]
                        n == ms.self["num_agents"]
                    IN /\ Len(cs.other_pos) = n - 1
                       /\ Len(cs.other_vel) = n - 1
                       /\ \A k \in 1..(n - 1) :
                            /\ cs.other_vel[k][1] = OtherAgent(a, k)
                            /\ cs.other_vel[k][1] # a
                            /\ cs.other_vel[k] = ms.state.p_vel[OtherAgent(a, k) + 1]
                            /\ cs.other_pos[k][1] + a = OtherAgent(a, k)
                            /\ cs.other_pos[k]
                                = Sub(ms.state.p_pos[OtherAgent(a, k) + 1],
                                      ms.state.p_pos[a + 1])

C21_Witness ==
    /\ ms.pc = "episode"
    /\ ms.self["num_agents"] >= 3
    /\ \E i \in 1..Len(ms.evals) :
        /\ ms.evals[i].fn = "_common_stats"
        /\ Len(ms.evals[i].out.value[2].other_vel) = ms.self["num_agents"] - 1
        /\ ms.evals[i].out.value[2].other_vel[1][1] = 0
        /\ ms.evals[i].out.value[2].other_vel[2][1] = 2

\* The square of the distance between the entities i and j (from 0).
SqDist(state, i, j) ==
    LET v == Sub(state.p_pos[i + 1], state.p_pos[j + 1])
    IN v[1] * v[1] + v[2] * v[2]

\* The reward returned for the agent of that name.
RewardOf(e, name) == e.out.value[Lookup(e.out.value, name)][2]

ChangedAfter(t) ==
    {[traj |-> [gs.traj EXCEPT ![u] = x], last_val |-> gs.last_val] :
        u \in (t + 1)..Len(gs.traj), x \in TransitionEntries}
    \cup {[traj |-> gs.traj, last_val |-> v] : v \in 0..MaxValue}

\* C23: at a transition whose done flag is set the advantage is
\* reward_t - value_t, and neither it nor the advantage of any earlier step
\* changes when the reward, value or done flag of a later transition or the
\* bootstrap value last_val is changed.
C23_DoneCutsDependence ==
    gs.pc = "returned" =>
        /\ gs.advantages = calculate_gae_advantages(gs.traj, gs.last_val, gs)
        /\ \A t \in 1..Len(gs.traj) :
            gs.traj[t].done = 1 =>
                /\ gs.advantages[t] = gs.traj[t].reward - gs.traj[t].value
                /\ \A c \in ChangedAfter(t) :
                    LET adv == calculate_gae_advantages(c.traj, c.last_val, gs)
                    IN \A k \in 1..t : adv[k] = gs.advantages[k]

\* C23's case: a returned call whose first step is terminal and not the
\* last, with advantages after it that a change of last_val changes.
C23_Witness ==
    /\ gs.pc = "returned"
    /\ Len(gs.traj) >= 2
    /\ gs.traj[1].done = 1
    /\ gs.advantages[1] = gs.traj[1].reward - gs.traj[1].value
    /\ gs.advantages[2] # 0
    /\ \E c \in ChangedAfter(1) :
        calculate_gae_advantages(c.traj, c.last_val, gs)[2] # gs.advantages[2]

(***************************************************************************)
(* Claims about the update counter and the logged metrics of a run.        *)
(***************************************************************************)
\* C24: the update counter starts at 0 and grows by 1 per update step, and
\* one metric record is logged per update step: the counter equals the number
\* of records logged, the i-th record carries update_step = i and
\* env_step = i * NUM_STEPS * NUM_ENVS, which never exceeds TOTAL_TIMESTEPS,
\* and when the run is over NUM_UPDATES records have been logged, the last
\* with env_step > TOTAL_TIMESTEPS - NUM_STEPS * NUM_ENVS.
C24_OneMetricPerUpdate ==
    (PassedAssertions /\ runner_state.bound) =>
        LET per_update == config["NUM_STEPS"] * config["NUM_ENVS"] IN
        /\ runner_state.update_step = Len(metrics)
        /\ \A i \in 1..Len(metrics) :
                /\ metrics[i].update_step = i
                /\ metrics[i].env_step = i * per_update
                /\ metrics[i].env_step <= config["TOTAL_TIMESTEPS"]
        /\ RunOver =>
                /\ Len(metrics) = config["NUM_UPDATES"]
                /\ Len(metrics) * per_update
                        > config["TOTAL_TIMESTEPS"] - per_update

====
